---- MODULE Spec2Model ----
(***************************************************************************)
(* Model of lib/file_uploader.js: FileUploader, the chunked media upload   *)
(* (INIT, APPEND*, FINALIZE, STATUS polling) of twit.                      *)
(*                                                                         *)
(* The transport (twit.get / twit.post), the file stream                   *)
(* (fs.createReadStream) and the timers (setTimeout) are the environment:  *)
(* each response, stream event and timer expiry is one step, and every     *)
(* handler of the source is one action.                                    *)
(*                                                                         *)
(* Not represented: the raw response `resp` that the transport passes as   *)
(* third argument, and console.log.  Successful STATUS answers always      *)
(* carry a processing_info, and a 'failed' one carries error.message.      *)
(***************************************************************************)
EXTENDS Integers, Sequences, FiniteSets

(* ---------------------------------------------------------------------- *)
(* Program constants                                                      *)
(* ---------------------------------------------------------------------- *)
MAX_FILE_SIZE_BYTES == 15 * 1024 * 1024
MAX_VIDEO_SIZE_BYTES == 512 * 1024 * 1024
MAX_FILE_CHUNK_BYTES == 5 * 1024 * 1024

imageMime == {"image/png", "image/jpeg", "image/webp"}
animatedGifMime == {"image/gif"}
videoMime == {"video/mp4"}

\* Default waits, in seconds, of checkAsyncFinish and of checkStatus.
FirstWaitSecs == 5
NextWaitSecs == 3

(* ---------------------------------------------------------------------- *)
(* Bounds and input sets                                                  *)
(* ---------------------------------------------------------------------- *)
\* The server answers 'in_progress' to at most MaxPolls STATUS requests.
MaxPolls == 2

\* What mime.lookup(file_path) can return for the files tried.
MimeTypes == {"image/png", "image/gif", "video/mp4", "application/octet-stream"}

\* What fs.statSync(file_path).size can return for the files tried.
FileSizes ==
  {0, 1, MAX_FILE_CHUNK_BYTES + 1, 12 * 1024 * 1024,
   MAX_FILE_SIZE_BYTES - 1, MAX_FILE_SIZE_BYTES, MAX_FILE_SIZE_BYTES + 1,
   MAX_VIDEO_SIZE_BYTES - 1, MAX_VIDEO_SIZE_BYTES, MAX_VIDEO_SIZE_BYTES + 1}

\* media_id_string values the server hands out.
MediaIds == {"710511363345354753", "710511363345354754"}
\* The media_id_string that the bodies of later responses carry.
EchoedId == "710511363345354754"

ProcessingStates == {"pending", "in_progress", "failed", "succeeded"}
CheckAfterSecs == {0, 2}
ErrorMessages == {"transcode error"}

(* ---------------------------------------------------------------------- *)
(* JavaScript values                                                      *)
(* ---------------------------------------------------------------------- *)
JSNull == [type |-> "null"]
JSError(msg) == [type |-> "Error", message |-> msg]
\* The error a failed transport call hands to its callback, for request r.
TransportError(r) == [type |-> "Error", message |-> <<"transport error">>, request |-> r]

\* processing_info objects of FINALIZE and STATUS bodies; check_after_secs
\* is an optional key, error is present on 'failed'.
ProcessingInfos(states) ==
  LET base(s) == IF s = "failed"
                 THEN {[state |-> s, error |-> [message |-> <<m>>]] : m \in ErrorMessages}
                 ELSE {[state |-> s]}
      withSecs(p) == {p} \cup
                     {[k \in DOMAIN p \cup {"check_after_secs"} |->
                         IF k = "check_after_secs" THEN c ELSE p[k]] : c \in CheckAfterSecs}
  IN UNION {UNION {withSecs(p) : p \in base(s)} : s \in states}

(* ---------------------------------------------------------------------- *)
(* State                                                                  *)
(* ---------------------------------------------------------------------- *)
VARIABLES
  mediaType,          \* mime.lookup(self._file_path)
  mediaFileSizeBytes, \* fs.statSync(self._file_path).size
  started,            \* upload() has been called
  _isUploading,       \* self._isUploading
  _isFileStreamEnded, \* self._isFileStreamEnded
  mediaTmpId,         \* closure variable of upload's INIT callback
  chunkNumber,        \* closure variable of upload's INIT callback
  mediaFile,          \* the read stream: open, flowing, chunks emitted, 'end' emitted
  requests,           \* every twit.get / twit.post call, in order
  inflight,           \* indices of requests whose callback has not run
  issuedAt,           \* per request: the position in events of its issue
  answeredAt,         \* per request: the position in events of its answer, 0 if none
  timers,             \* every setTimeout(checkStatus, ms), in order: the ms
  pendingTimers,      \* indices of timers that have not fired
  callbacks,          \* every invocation of the caller's cb, in order: its arguments
  events              \* the order of all of the above

vars == <<mediaType, mediaFileSizeBytes, started, _isUploading, _isFileStreamEnded,
          mediaTmpId, chunkNumber, mediaFile, requests, inflight, issuedAt,
          answeredAt, timers, pendingTimers, callbacks, events>>

fileVars == <<mediaType, mediaFileSizeBytes>>

(* ---------------------------------------------------------------------- *)
(* Pure helpers                                                           *)
(* ---------------------------------------------------------------------- *)
\* Number of 'data' events of a stream with highWaterMark MAX_FILE_CHUNK_BYTES.
NumChunks(size) == (size + MAX_FILE_CHUNK_BYTES - 1) \div MAX_FILE_CHUNK_BYTES

\* Length of the k-th chunk (k from 0) of a file of the given size.
ChunkBytes(size, k) ==
  IF (k + 1) * MAX_FILE_CHUNK_BYTES <= size
  THEN MAX_FILE_CHUNK_BYTES
  ELSE size - k * MAX_FILE_CHUNK_BYTES

\* if (mediaFileSizeBytes < maxSizeBytes)
\* A limit that admits a file of exactly the maximum size.
withinLimit_Inclusive(size, max) == size <= max

withinLimit(size, max) == size < max

maxSizeBytes(type) ==
  IF type \in videoMime THEN MAX_VIDEO_SIZE_BYTES ELSE MAX_FILE_SIZE_BYTES

\* A completion test that waits for a chunk to be outstanding.
_isUploadComplete_Uploading(uploading, ended) == uploading /\ ended

\* A completion test that forgets the outstanding chunk.
_isUploadComplete_EndedOnly(uploading, ended) == ended

_isUploadComplete(uploading, ended) == ~uploading /\ ended

\* mediaFile.pause() and mediaFile.resume()
\* A pause that leaves the stream flowing.
pause_Noop(stream) == stream

pause(stream) == [stream EXCEPT !.flowing = FALSE]

resume(stream) == [stream EXCEPT !.flowing = TRUE]

\* var waitTime = processing_info.check_after_secs; if (!waitTime) waitTime = dflt;
\* A wait that ignores the server's hint.
waitTime_NoHint(processing_info, dflt) == dflt

waitTime(processing_info, dflt) ==
  IF "check_after_secs" \in DOMAIN processing_info
     /\ processing_info.check_after_secs # 0
  THEN processing_info.check_after_secs
  ELSE dflt

\* The files uploaded: every type with every size that is rejected, and
\* below the ceiling the image with every size, the unrecognized type with
\* the smallest and the largest size, the video with the sizes that only it
\* may have.
Files ==
  {f \in MimeTypes \X FileSizes :
     \/ ~withinLimit(f[2], maxSizeBytes(f[1]))
     \/ f[1] = "image/png"
     \/ f[1] = "application/octet-stream" /\ f[2] \in {1, MAX_FILE_SIZE_BYTES - 1}
     \/ f[1] = "video/mp4" /\ f[2] >= MAX_FILE_SIZE_BYTES}

Init ==
  /\ \E f \in Files : mediaType = f[1] /\ mediaFileSizeBytes = f[2]
  /\ started = FALSE
  /\ _isUploading = FALSE
  /\ _isFileStreamEnded = FALSE
  /\ mediaTmpId = "undefined"
  /\ chunkNumber = 0
  /\ mediaFile = [open |-> FALSE, flowing |-> FALSE, emitted |-> 0, ended |-> FALSE]
  /\ requests = <<>>
  /\ inflight = {}
  /\ issuedAt = <<>>
  /\ answeredAt = <<>>
  /\ timers = <<>>
  /\ pendingTimers = {}
  /\ callbacks = <<>>
  /\ events = <<>>

(* ---------------------------------------------------------------------- *)
(* Request shaping                                                        *)
(* ---------------------------------------------------------------------- *)
\* mediaCategory of _initMedia: <<>> is null, <<c>> is the string c.
mediaCategory(type) ==
  LET c0 == <<>>
      c1 == IF type \in imageMime THEN <<"tweet_image">> ELSE c0
      c2 == IF type \in animatedGifMime THEN <<"tweet_gif">> ELSE c1
      c3 == IF type \in videoMime THEN <<"tweet_video">> ELSE c2
  IN c3

\* An INIT that always sends the category, null when the type is unknown.
initParameters_NullCategory(type, size) ==
  [command |-> "INIT", media_type |-> type, total_bytes |-> size,
   media_category |-> IF mediaCategory(type) # <<>> THEN mediaCategory(type)[1] ELSE "null"]

initParameters(type, size) ==
  IF mediaCategory(type) # <<>>
  THEN [command |-> "INIT", media_type |-> type, total_bytes |-> size,
        media_category |-> mediaCategory(type)[1]]
  ELSE [command |-> "INIT", media_type |-> type, total_bytes |-> size]

\* chunk.toString('base64') of the k-th chunk: the chunk it encodes and the
\* length of the encoding (4 characters per started group of 3 bytes).
base64(k, bytes) == [chunk |-> k, length |-> 4 * ((bytes + 2) \div 3)]

_initMedia(type, size) ==
  [method |-> "POST", path |-> "media/upload", params |-> initParameters(type, size)]

_appendMedia(media_id_string, chunk_part, segment_index) ==
  [method |-> "POST", path |-> "media/upload",
   params |-> [command |-> "APPEND", media_id |-> media_id_string,
               segment_index |-> segment_index, media |-> chunk_part]]

_finalizeMedia(media_id) ==
  [method |-> "POST", path |-> "media/upload",
   params |-> [command |-> "FINALIZE", media_id |-> media_id]]

_statusMedia(media_id) ==
  [method |-> "GET", path |-> "media/upload",
   params |-> [command |-> "STATUS", media_id |-> media_id]]

\* util.format('This file is too large. Max size is %dB. Got: %dB.', max, got)
errMsg(max, got) ==
  <<"This file is too large. Max size is ", max, "B. Got: ", got, "B.">>

(* ---------------------------------------------------------------------- *)
(* Bookkeeping shared by the handlers                                     *)
(* ---------------------------------------------------------------------- *)
Command(r) == requests[r].params.command
Pending(cmd) == {r \in inflight : Command(r) = cmd}

\* The handler of request r's response runs and issues the requests reqs,
\* schedules the timers ms and calls cb with each of cbs, in that order.
\* flags are the values of the two completion flags when it does so.
Effects(evs, reqs, ms, cbs, flags) ==
  LET nr == Len(requests)
      nt == Len(timers)
      nc == Len(callbacks)
  IN /\ requests' = requests \o reqs
     /\ issuedAt' = issuedAt \o [i \in 1..Len(reqs) |-> Len(events) + Len(evs) + i]
     /\ timers' = timers \o ms
     /\ callbacks' = callbacks \o cbs
     /\ events' = events \o evs
          \o [i \in 1..Len(reqs) |-> [type |-> "request", n |-> nr + i, flags |-> flags]]
          \o [i \in 1..Len(ms) |-> [type |-> "timer", n |-> nt + i]]
          \o [i \in 1..Len(cbs) |-> [type |-> "callback", n |-> nc + i]]

\* The transport's side of a handler: request r (0: none) has been answered,
\* by the event at the next position of events, and reqs are now outstanding.
Answered(r, reqs) ==
  /\ inflight' = (inflight \ {r}) \cup {Len(requests) + i : i \in 1..Len(reqs)}
  /\ answeredAt' = [q \in 1..(Len(requests) + Len(reqs)) |->
                      IF q = r THEN Len(events) + 1
                      ELSE IF q <= Len(requests) THEN answeredAt[q] ELSE 0]
Scheduled(fired, ms) ==
  pendingTimers' = (pendingTimers \ fired) \cup {Len(timers) + i : i \in 1..Len(ms)}

ResponseEv(r, err) == [type |-> "response", n |-> r, err |-> err]
BodyEv(r, body) == [type |-> "response", n |-> r, err |-> JSNull, body |-> body]

(* ---------------------------------------------------------------------- *)
(* upload(cb): _initMedia runs synchronously                              *)
(* ---------------------------------------------------------------------- *)
upload ==
  /\ ~started
  /\ started' = TRUE
  /\ IF withinLimit(mediaFileSizeBytes, maxSizeBytes(mediaType))
     THEN /\ Effects(<<>>, <<_initMedia(mediaType, mediaFileSizeBytes)>>, <<>>, <<>>,
                     <<_isUploading, _isFileStreamEnded>>)
          /\ Answered(0, <<_initMedia(mediaType, mediaFileSizeBytes)>>)
     ELSE /\ Effects(<<>>, <<>>, <<>>,
                     << <<JSError(errMsg(maxSizeBytes(mediaType), mediaFileSizeBytes))>> >>,
                     <<_isUploading, _isFileStreamEnded>>)
          /\ Answered(0, <<>>)
  /\ UNCHANGED <<fileVars, _isUploading, _isFileStreamEnded, mediaTmpId, chunkNumber,
                 mediaFile, pendingTimers>>

(* ---------------------------------------------------------------------- *)
(* The callback of _initMedia (lines 40-117)                              *)
(* ---------------------------------------------------------------------- *)
InitRespErr ==
  \E r \in Pending("INIT") :
    /\ Effects(<<ResponseEv(r, TransportError(r))>>, <<>>, <<>>,
               << <<TransportError(r)>> >>, <<_isUploading, _isFileStreamEnded>>)
    /\ Answered(r, <<>>)
    /\ UNCHANGED <<fileVars, started, _isUploading, _isFileStreamEnded, mediaTmpId,
                   chunkNumber, mediaFile, pendingTimers>>

InitRespOk ==
  \E r \in Pending("INIT"), id \in MediaIds :
    LET bodyObj == [request |-> r, media_id_string |-> id]
    IN /\ mediaTmpId' = bodyObj.media_id_string
       /\ chunkNumber' = 0
       \* createReadStream, and on('data') switches the stream to flowing
       /\ mediaFile' = [open |-> TRUE, flowing |-> TRUE, emitted |-> 0, ended |-> FALSE]
       /\ Effects(<<BodyEv(r, bodyObj)>>, <<>>, <<>>, <<>>,
                  <<_isUploading, _isFileStreamEnded>>)
       /\ Answered(r, <<>>)
       /\ UNCHANGED <<fileVars, started, _isUploading, _isFileStreamEnded, pendingTimers>>

(* ---------------------------------------------------------------------- *)
(* mediaFile.on('data') (lines 86-92)                                     *)
(* ---------------------------------------------------------------------- *)
StreamData ==
  /\ mediaFile.open /\ mediaFile.flowing /\ ~mediaFile.ended
  /\ mediaFile.emitted < NumChunks(mediaFileSizeBytes)
  /\ LET k == mediaFile.emitted
         chunk == base64(k, ChunkBytes(mediaFileSizeBytes, k))
     IN /\ mediaFile' = pause([mediaFile EXCEPT !.emitted = k + 1])
        /\ _isUploading' = TRUE
        /\ Effects(<<[type |-> "data", n |-> k]>>,
                   <<_appendMedia(mediaTmpId, chunk, chunkNumber)>>, <<>>, <<>>,
                   <<TRUE, _isFileStreamEnded>>)
        /\ Answered(0, <<_appendMedia(mediaTmpId, chunk, chunkNumber)>>)
  /\ UNCHANGED <<fileVars, started, _isFileStreamEnded, mediaTmpId, chunkNumber,
                 pendingTimers>>

(* ---------------------------------------------------------------------- *)
(* mediaFile.on('end') (lines 109-115).  The stream emits 'end' once all  *)
(* chunks have been handed out; whether a paused stream does so depends   *)
(* on the stream implementation, so both are allowed.                     *)
(* ---------------------------------------------------------------------- *)
StreamEnd ==
  /\ mediaFile.open /\ ~mediaFile.ended
  /\ mediaFile.emitted = NumChunks(mediaFileSizeBytes)
  /\ mediaFile' = [mediaFile EXCEPT !.ended = TRUE]
  /\ _isFileStreamEnded' = TRUE
  /\ LET reqs == IF _isUploadComplete(_isUploading, TRUE)
                 THEN <<_finalizeMedia(mediaTmpId)>> ELSE <<>>
     IN /\ Effects(<<[type |-> "end", n |-> mediaFile.emitted]>>, reqs, <<>>, <<>>,
                   <<_isUploading, TRUE>>)
        /\ Answered(0, reqs)
  /\ UNCHANGED <<fileVars, started, _isUploading, mediaTmpId, chunkNumber, pendingTimers>>

(* ---------------------------------------------------------------------- *)
(* The callback of _appendMedia (lines 92-106)                            *)
(* ---------------------------------------------------------------------- *)
\* An APPEND error handler that moves on to the next segment index.
AppendRespErr_Increments ==
  \E r \in Pending("APPEND") :
    /\ _isUploading' = FALSE
    /\ chunkNumber' = chunkNumber + 1
    /\ Effects(<<ResponseEv(r, TransportError(r))>>, <<>>, <<>>,
               << <<TransportError(r)>> >>, <<FALSE, _isFileStreamEnded>>)
    /\ Answered(r, <<>>)
    /\ UNCHANGED <<fileVars, started, _isFileStreamEnded, mediaTmpId,
                   mediaFile, pendingTimers>>

AppendRespErr ==
  \E r \in Pending("APPEND") :
    /\ _isUploading' = FALSE
    /\ Effects(<<ResponseEv(r, TransportError(r))>>, <<>>, <<>>,
               << <<TransportError(r)>> >>, <<FALSE, _isFileStreamEnded>>)
    /\ Answered(r, <<>>)
    /\ UNCHANGED <<fileVars, started, _isFileStreamEnded, mediaTmpId, chunkNumber,
                   mediaFile, pendingTimers>>

AppendRespOk ==
  \E r \in Pending("APPEND") :
    /\ _isUploading' = FALSE
    /\ IF _isUploadComplete(FALSE, _isFileStreamEnded)
       THEN /\ Effects(<<ResponseEv(r, JSNull)>>, <<_finalizeMedia(mediaTmpId)>>, <<>>, <<>>,
                       <<FALSE, _isFileStreamEnded>>)
            /\ Answered(r, <<_finalizeMedia(mediaTmpId)>>)
            /\ UNCHANGED <<chunkNumber, mediaFile>>
       ELSE /\ chunkNumber' = chunkNumber + 1
            /\ mediaFile' = resume(mediaFile)
            /\ Effects(<<ResponseEv(r, JSNull)>>, <<>>, <<>>, <<>>,
                       <<FALSE, _isFileStreamEnded>>)
            /\ Answered(r, <<>>)
    /\ UNCHANGED <<fileVars, started, _isFileStreamEnded, mediaTmpId, pendingTimers>>

(* ---------------------------------------------------------------------- *)
(* checkAsyncFinish, the callback of _finalizeMedia (lines 48-84)         *)
(* ---------------------------------------------------------------------- *)
\* Bodies of a successful FINALIZE answer to request r.
FinalizeBodies(r) ==
  {[request |-> r, media_id_string |-> EchoedId]} \cup
  {[request |-> r, media_id_string |-> EchoedId, processing_info |-> p] :
     p \in ProcessingInfos(ProcessingStates)}

\* A checkAsyncFinish that polls whether or not processing_info is there.
checkAsyncFinish_AlwaysPoll(r, bodyObj) ==
  /\ Effects(<<BodyEv(r, bodyObj)>>, <<>>, <<FirstWaitSecs * 1000>>, <<>>,
             <<_isUploading, _isFileStreamEnded>>)
  /\ Scheduled({}, <<FirstWaitSecs * 1000>>)

\* A checkAsyncFinish that believes a FINALIZE answer reporting 'succeeded'.
checkAsyncFinish_TrustsState(r, bodyObj) ==
  IF "processing_info" \in DOMAIN bodyObj /\ bodyObj.processing_info.state # "succeeded"
  THEN LET ms == <<waitTime(bodyObj.processing_info, FirstWaitSecs) * 1000>>
       IN /\ Effects(<<BodyEv(r, bodyObj)>>, <<>>, ms, <<>>,
                     <<_isUploading, _isFileStreamEnded>>)
          /\ Scheduled({}, ms)
  ELSE /\ Effects(<<BodyEv(r, bodyObj)>>, <<>>, <<>>, << <<JSNull, bodyObj>> >>,
                  <<_isUploading, _isFileStreamEnded>>)
       /\ UNCHANGED pendingTimers

checkAsyncFinish(r, bodyObj) ==
  IF "processing_info" \in DOMAIN bodyObj
  THEN LET ms == <<waitTime(bodyObj.processing_info, FirstWaitSecs) * 1000>>
       IN /\ Effects(<<BodyEv(r, bodyObj)>>, <<>>, ms, <<>>,
                     <<_isUploading, _isFileStreamEnded>>)
          /\ Scheduled({}, ms)
  ELSE /\ Effects(<<BodyEv(r, bodyObj)>>, <<>>, <<>>, << <<JSNull, bodyObj>> >>,
                  <<_isUploading, _isFileStreamEnded>>)
       /\ UNCHANGED pendingTimers

FinalizeRespErr ==
  \E r \in Pending("FINALIZE") :
    /\ Effects(<<ResponseEv(r, TransportError(r))>>, <<>>, <<>>,
               << <<TransportError(r)>> >>, <<_isUploading, _isFileStreamEnded>>)
    /\ Answered(r, <<>>)
    /\ UNCHANGED <<fileVars, started, _isUploading, _isFileStreamEnded, mediaTmpId,
                   chunkNumber, mediaFile, pendingTimers>>

FinalizeRespOk ==
  \E r \in Pending("FINALIZE") : \E bodyObj \in FinalizeBodies(r) :
    /\ checkAsyncFinish(r, bodyObj)
    /\ Answered(r, <<>>)
    /\ UNCHANGED <<fileVars, started, _isUploading, _isFileStreamEnded, mediaTmpId,
                   chunkNumber, mediaFile>>

(* ---------------------------------------------------------------------- *)
(* checkStatus, run by a timer (lines 55-56)                              *)
(* ---------------------------------------------------------------------- *)
\* A checkStatus that takes the id from the body of the latest response.
TimerFire_BodyId ==
  \E t \in pendingTimers :
    /\ Effects(<<[type |-> "fire", n |-> t]>>, <<_statusMedia(EchoedId)>>, <<>>, <<>>,
               <<_isUploading, _isFileStreamEnded>>)
    /\ Answered(0, <<_statusMedia(EchoedId)>>)
    /\ Scheduled({t}, <<>>)
    /\ UNCHANGED <<fileVars, started, _isUploading, _isFileStreamEnded, mediaTmpId,
                   chunkNumber, mediaFile>>

TimerFire ==
  \E t \in pendingTimers :
    /\ Effects(<<[type |-> "fire", n |-> t]>>, <<_statusMedia(mediaTmpId)>>, <<>>, <<>>,
               <<_isUploading, _isFileStreamEnded>>)
    /\ Answered(0, <<_statusMedia(mediaTmpId)>>)
    /\ Scheduled({t}, <<>>)
    /\ UNCHANGED <<fileVars, started, _isUploading, _isFileStreamEnded, mediaTmpId,
                   chunkNumber, mediaFile>>

(* ---------------------------------------------------------------------- *)
(* The callback of _statusMedia (lines 56-75)                             *)
(* ---------------------------------------------------------------------- *)
\* Bodies of a successful STATUS answer to request r whose state is in states.
\* The server stops answering 'in_progress' after MaxPolls such answers.
StatusBodies(r, states) ==
  {[request |-> r, media_id_string |-> EchoedId, processing_info |-> p] :
     p \in {q \in ProcessingInfos(states) :
              q.state = "in_progress" => Len(timers) <= MaxPolls}}

statusCallback(r, bodyObj) ==
  LET state == bodyObj.processing_info.state
      flags == <<_isUploading, _isFileStreamEnded>>
  IN IF state = "in_progress"
     THEN LET ms == <<waitTime(bodyObj.processing_info, NextWaitSecs) * 1000>>
          IN /\ Effects(<<BodyEv(r, bodyObj)>>, <<>>, ms, <<>>, flags)
             /\ Scheduled({}, ms)
     ELSE IF state = "failed"
     THEN /\ Effects(<<BodyEv(r, bodyObj)>>, <<>>, <<>>,
                     << <<JSError(bodyObj.processing_info.error.message)>> >>, flags)
          /\ UNCHANGED pendingTimers
     ELSE IF state = "succeeded"
     THEN /\ Effects(<<BodyEv(r, bodyObj)>>, <<>>, <<>>, << <<JSNull, bodyObj>> >>, flags)
          /\ UNCHANGED pendingTimers
     ELSE \* no case of the switch matches
          /\ Effects(<<BodyEv(r, bodyObj)>>, <<>>, <<>>, <<>>, flags)
          /\ UNCHANGED pendingTimers

StatusRespErr ==
  \E r \in Pending("STATUS") :
    /\ Effects(<<ResponseEv(r, TransportError(r))>>, <<>>, <<>>,
               << <<TransportError(r)>> >>, <<_isUploading, _isFileStreamEnded>>)
    /\ Answered(r, <<>>)
    /\ UNCHANGED <<fileVars, started, _isUploading, _isFileStreamEnded, mediaTmpId,
                   chunkNumber, mediaFile, pendingTimers>>

StatusAnswer(r, bodyObj) ==
  /\ statusCallback(r, bodyObj)
  /\ Answered(r, <<>>)
  /\ UNCHANGED <<fileVars, started, _isUploading, _isFileStreamEnded, mediaTmpId,
                 chunkNumber, mediaFile>>

StatusRespOk ==
  \E r \in Pending("STATUS") : \E bodyObj \in StatusBodies(r, ProcessingStates) :
    StatusAnswer(r, bodyObj)

\* A server whose processing goes through 'in_progress' and ends in 'succeeded'.
StatusRespProcessing ==
  \E r \in Pending("STATUS") : \E bodyObj \in StatusBodies(r, {"in_progress", "succeeded"}) :
    StatusAnswer(r, bodyObj)

(* ---------------------------------------------------------------------- *)
(* Specifications                                                         *)
(* ---------------------------------------------------------------------- *)
Next ==
  \/ upload
  \/ InitRespErr
  \/ InitRespOk
  \/ StreamData
  \/ StreamEnd
  \/ AppendRespErr
  \/ AppendRespOk
  \/ FinalizeRespErr
  \/ FinalizeRespOk
  \/ TimerFire
  \/ StatusRespErr
  \/ StatusRespOk

Spec == Init /\ [][Next]_vars

\* Runs without transport error whose processing ends in 'succeeded'.  The
\* event loop runs every handler whose event is due, hence the fairness.
NextNoFault ==
  \/ upload
  \/ InitRespOk
  \/ StreamData
  \/ StreamEnd
  \/ AppendRespOk
  \/ FinalizeRespOk
  \/ TimerFire
  \/ StatusRespProcessing

LiveSpec == Init /\ [][NextNoFault]_vars /\ WF_vars(NextNoFault)

TypeOK ==
  /\ started \in BOOLEAN /\ _isUploading \in BOOLEAN /\ _isFileStreamEnded \in BOOLEAN
  /\ inflight \subseteq 1..Len(requests)
  /\ Len(issuedAt) = Len(requests) /\ Len(answeredAt) = Len(requests)
  /\ \A r \in 1..Len(requests) :
       /\ events[issuedAt[r]].type = "request" /\ events[issuedAt[r]].n = r
       /\ (r \in inflight) = (answeredAt[r] = 0)
       /\ r \notin inflight =>
            events[answeredAt[r]].type = "response" /\ events[answeredAt[r]].n = r
  /\ pendingTimers \subseteq 1..Len(timers)
  /\ chunkNumber \in 0..NumChunks(mediaFileSizeBytes)

(* ---------------------------------------------------------------------- *)
(* Observations on the logs                                               *)
(* ---------------------------------------------------------------------- *)
Issued(cmd) == {r \in 1..Len(requests) : Command(r) = cmd}
\* Positions in events of the events of one type.
At(type) == {i \in 1..Len(events) : events[i].type = type}
\* Position in events at which request r was issued / answered.
IssuedAt(r) == issuedAt[r]
AnsweredAt(r) == answeredAt[r]
IsAnswered(r) == answeredAt[r] # 0
Failed(cmd) == {r \in Issued(cmd) : IsAnswered(r) /\ events[AnsweredAt(r)].err # JSNull}
Succeeded(cmd) == {r \in Issued(cmd) : IsAnswered(r) /\ events[AnsweredAt(r)].err = JSNull}
\* INIT and every APPEND issued so far have been answered without error.
StreamingClean == Failed("INIT") = {} /\ Failed("APPEND") = {}

(* ---------------------------------------------------------------------- *)
(* C1: FINALIZE is issued at most once per upload, and whenever it is     *)
(* issued the flags read (_isUploading, _isFileStreamEnded) = (FALSE,     *)
(* TRUE).  When INIT and all APPENDs succeed, it has been issued exactly  *)
(* once as soon as the stream has ended and no APPEND is outstanding; it  *)
(* comes after the 'end' event and after the successful answers to all N  *)
(* APPENDs, and it is issued by whichever of the 'end' handler and the    *)
(* last APPEND's response handler runs last.                              *)
(* ---------------------------------------------------------------------- *)
C1_FinalizeOnce ==
  /\ Cardinality(Issued("FINALIZE")) <= 1
  /\ \A f \in Issued("FINALIZE") : events[IssuedAt(f)].flags = <<FALSE, TRUE>>
  /\ StreamingClean =>
       /\ (mediaFile.ended /\ Pending("APPEND") = {}) => Cardinality(Issued("FINALIZE")) = 1
       /\ \A f \in Issued("FINALIZE") :
            LET i == IssuedAt(f)
                N == NumChunks(mediaFileSizeBytes)
            IN /\ \E e \in At("end") : e < i
               /\ Cardinality({r \in Succeeded("APPEND") : AnsweredAt(r) < i}) = N
               /\ \A r \in Issued("APPEND") : IsAnswered(r) /\ AnsweredAt(r) < i
               /\ events[i - 1].type \in {"end", "response"}
               /\ events[i - 1].type = "response" => Command(events[i - 1].n) = "APPEND"

\* FINALIZE was issued by the response handler of the last of two or more
\* APPENDs, the stream having ended while that APPEND was outstanding.
C1_Witness ==
  /\ StreamingClean
  /\ Cardinality(Issued("APPEND")) >= 2
  /\ \E f \in Issued("FINALIZE") :
       /\ events[IssuedAt(f) - 1].type = "response"
       /\ events[IssuedAt(f) - 2].type = "end"

\* The other order: the last APPEND was answered first, 'end' issued FINALIZE.
C1_WitnessEndLast ==
  /\ StreamingClean
  /\ Cardinality(Issued("APPEND")) >= 2
  /\ \E f \in Issued("FINALIZE") : events[IssuedAt(f) - 1].type = "end"

(* ---------------------------------------------------------------------- *)
(* C2: at most one APPEND is outstanding in any state.  While INIT and    *)
(* all APPENDs succeed, the j-th APPEND issued (j from 0) carries         *)
(* segment_index j and chunk j, so the indices issued are 0,1,2,... in    *)
(* increasing order without gap; and once the stream side is over,        *)
(* exactly N APPENDs have been issued for a file of N chunks.             *)
(* ---------------------------------------------------------------------- *)
C2_AppendSequence ==
  LET appends == SelectSeq(requests, LAMBDA q : q.params.command = "APPEND")
      pending == Pending("APPEND")
  IN /\ Cardinality(pending) <= 1
     /\ StreamingClean =>
          /\ \A j \in 1..Len(appends) :
               /\ appends[j].params.segment_index = j - 1
               /\ appends[j].params.media.chunk = j - 1
          /\ Len(appends) <= NumChunks(mediaFileSizeBytes)
          /\ (mediaFile.ended /\ pending = {}) =>
               Len(appends) = NumChunks(mediaFileSizeBytes)

\* A three-chunk file has been appended completely and FINALIZE issued.
C2_Witness ==
  /\ StreamingClean
  /\ NumChunks(mediaFileSizeBytes) = 3
  /\ Cardinality(Succeeded("APPEND")) = 3
  /\ Issued("FINALIZE") # {}

(* ---------------------------------------------------------------------- *)
(* C3: the caller's callback is invoked at most once, exactly once when   *)
(* nothing is left to run for the upload, and each invocation carries     *)
(* either an error and no body or a null error and a response body.       *)
(* ---------------------------------------------------------------------- *)
\* No request is outstanding, no timer pending, and the stream is silent.
Quiescent ==
  /\ started /\ inflight = {} /\ pendingTimers = {}
  /\ mediaFile.open /\ ~mediaFile.ended =>
       /\ mediaFile.emitted < NumChunks(mediaFileSizeBytes)
       /\ ~mediaFile.flowing

ErrorOnly(args) == Len(args) = 1 /\ args[1].type = "Error"
SuccessWithBody(args) == Len(args) = 2 /\ args[1] = JSNull /\ "request" \in DOMAIN args[2]

C3_ExactlyOneCallback ==
  /\ Len(callbacks) <= 1
  /\ Quiescent => Len(callbacks) = 1
  /\ \A c \in 1..Len(callbacks) : ErrorOnly(callbacks[c]) \/ SuccessWithBody(callbacks[c])

(* ---------------------------------------------------------------------- *)
(* C4: after a response carrying a transport error no APPEND, FINALIZE or *)
(* STATUS request is issued and no timer is scheduled, and the callback   *)
(* has been invoked exactly once, with that error.                        *)
(* ---------------------------------------------------------------------- *)
C4_ErrorShortCircuits ==
  \A i \in At("response") :
    events[i].err # JSNull =>
      /\ \A j \in (i + 1)..Len(events) : events[j].type \notin {"request", "timer"}
      /\ callbacks = << <<events[i].err>> >>

(* ---------------------------------------------------------------------- *)
(* C5: once upload() has run on a file whose size is at least the ceiling *)
(* (512 MiB for video/mp4, 15 MiB for any other type), the callback has   *)
(* been invoked exactly once, with the oversize error naming the ceiling  *)
(* and the size, and no request was issued and no timer scheduled; on a   *)
(* smaller file, one byte below the ceiling included, INIT was issued and *)
(* no oversize error is reported.                                         *)
(* ---------------------------------------------------------------------- *)
Ceiling == IF mediaType = "video/mp4" THEN 512 * 1048576 ELSE 15 * 1048576
IsOversizeError(args) ==
  /\ Len(args) = 1 /\ args[1].type = "Error"
  /\ Len(args[1].message) = 5 /\ args[1].message[1] = "This file is too large. Max size is "
C5_WitnessBelow ==
  /\ mediaType = "image/png" /\ mediaFileSizeBytes = 15 * 1048576 - 1
  /\ Cardinality(Succeeded("APPEND")) = 3

(* ---------------------------------------------------------------------- *)
(* C6: when no transport call fails and processing ends in 'succeeded',   *)
(* an upload() of a file below the ceiling leads to a state from which    *)
(* the callback has been invoked exactly once, without error, for good;   *)
(* the empty file included.  (callbacks only grows, so it is never        *)
(* invoked twice on the way.)                                             *)
(* ---------------------------------------------------------------------- *)
OneSuccess == Len(callbacks) = 1 /\ SuccessWithBody(callbacks[1])
C6_EventuallyOneSuccess ==
  [](started /\ mediaFileSizeBytes < Ceiling => <>[]OneSuccess)

\* The empty file has been uploaded, polled, and reported as a success.
C6_Witness ==
  /\ mediaFileSizeBytes = 0 /\ Issued("APPEND") = {}
  /\ Len(timers) >= 2 /\ OneSuccess

(* ---------------------------------------------------------------------- *)
(* C7: when the answer to FINALIZE has no processing_info, its handler    *)
(* invokes the callback with (null, that body), and the upload never      *)
(* issues a STATUS request nor schedules a timer.                         *)
(* ---------------------------------------------------------------------- *)
\* FINALIZE requests answered successfully with / without processing_info.
FinalizedWith(hasInfo) ==
  {f \in Succeeded("FINALIZE") :
     ("processing_info" \in DOMAIN events[AnsweredAt(f)].body) = hasInfo}

C7_NoProcessingInfo ==
  \A f \in FinalizedWith(FALSE) :
    LET i == AnsweredAt(f)
    IN /\ Len(events) > i /\ events[i + 1].type = "callback"
       /\ callbacks[events[i + 1].n] = <<JSNull, events[i].body>>
       /\ events[i].body.request = f
       /\ Issued("STATUS") = {} /\ timers = <<>>

\* The 12 MiB image of three chunks was finalized without processing_info.
C7_Witness ==
  /\ mediaFileSizeBytes = 12 * 1048576 /\ StreamingClean
  /\ FinalizedWith(FALSE) # {} /\ OneSuccess

(* ---------------------------------------------------------------------- *)
(* C8: when the STATUS answers are k times 'in_progress' and then         *)
(* 'succeeded', exactly k+1 STATUS requests are issued, each right after  *)
(* the firing of the timer that the previous answer scheduled, no request *)
(* or timer follows the 'succeeded' answer, and the callback has been     *)
(* invoked exactly once, with (null, body of that last answer); three     *)
(* STATUS requests for in_progress, in_progress, succeeded.               *)
(* ---------------------------------------------------------------------- *)
StatusState(r) == events[AnsweredAt(r)].body.processing_info.state
\* STATUS requests answered successfully with the given state.
StatusAnswered(state) == {r \in Succeeded("STATUS") : StatusState(r) = state}

\* Every STATUS request was issued by the firing of the latest timer, which
\* the answer just before it (FINALIZE's or an 'in_progress') had scheduled.
PollsAreTimed ==
  \A r \in Issued("STATUS") :
    LET i == IssuedAt(r)
    IN /\ events[i - 1].type = "fire"
       /\ \E j \in At("timer") :
            /\ j < i - 1 /\ events[j].n = events[i - 1].n
            /\ events[j - 1].type = "response"
            /\ \A q \in Issued("STATUS") : q < r => AnsweredAt(q) < j

C8_PollUntilSucceeded ==
  \A r \in StatusAnswered("succeeded") :
    LET before == {q \in Issued("STATUS") : q < r}
        k == Cardinality(before)
    IN before \subseteq StatusAnswered("in_progress") =>
         /\ Cardinality(Issued("STATUS")) = k + 1
         /\ Len(timers) = k + 1 /\ pendingTimers = {}
         /\ PollsAreTimed
         /\ AnsweredAt(r) + 1 = Len(events)
         /\ callbacks = << <<JSNull, events[AnsweredAt(r)].body>> >>
         /\ events[AnsweredAt(r)].body.request = r

(* ---------------------------------------------------------------------- *)
(* C9: when a STATUS answer reports 'failed', the callback has been       *)
(* invoked exactly once, with an error whose message is that answer's     *)
(* processing_info.error.message and with no body, and no STATUS request  *)
(* or timer follows.                                                      *)
(* ---------------------------------------------------------------------- *)
C9_ProcessingFailed ==
  \A r \in StatusAnswered("failed") :
    LET i == AnsweredAt(r)
    IN /\ Len(callbacks) = 1
       /\ callbacks[1] = <<JSError(events[i].body.processing_info.error.message)>>
       /\ callbacks[1][1].message = <<"transcode error">>
       /\ \A j \in (i + 1)..Len(events) : events[j].type = "callback"
       /\ pendingTimers = {} /\ Pending("STATUS") = {}

(* ---------------------------------------------------------------------- *)
(* C10: the delay of every timer is 1000 ms times the check_after_secs of *)
(* the answer that scheduled it when that field is present; when it is    *)
(* absent the delay is 5 s if the answer is FINALIZE's (the first wait)   *)
(* and 3 s if it is an 'in_progress' STATUS answer (a later wait).        *)
(* ---------------------------------------------------------------------- *)
\* The delay, in ms, of the timer scheduled at position j of events, judged
\* by the answer at position j - 1 that scheduled it.
DelayIs(j, hinted(_)) ==
  LET answer == events[j - 1]
      info == answer.body.processing_info
      first == Command(answer.n) = "FINALIZE"
  IN /\ answer.type = "response"
     /\ first \/ (Command(answer.n) = "STATUS" /\ info.state = "in_progress")
     /\ timers[events[j].n] =
          IF hinted(info) THEN info.check_after_secs * 1000
          ELSE IF first THEN 5000 ELSE 3000

HintPresent(info) == "check_after_secs" \in DOMAIN info
HintPresentNonZero(info) == HintPresent(info) /\ info.check_after_secs # 0

\* As claimed: a present check_after_secs is always the delay.
C10_DelayAsClaimed == \A j \in At("timer") : DelayIs(j, HintPresent)

\* As the code has it: a check_after_secs of 0 counts as absent.
C10_Delay == \A j \in At("timer") : DelayIs(j, HintPresentNonZero)

\* A first wait of the default 5 s, a second of the hinted 2 s, a third of
\* the default 3 s because the hint was 0.
C10_Witness ==
  /\ Len(timers) = 3 /\ timers = <<5000, 2000, 3000>>
  /\ \E j \in At("timer") : events[j].n = 3 /\ HintPresent(events[j - 1].body.processing_info)

(* ---------------------------------------------------------------------- *)
(* The start of an upload on more kinds of file: every type of the three  *)
(* MIME lists of _initMedia and some outside them.                        *)
(* ---------------------------------------------------------------------- *)
AllMimeTypes ==
  {"image/png", "image/jpeg", "image/webp", "image/gif", "video/mp4",
   "application/octet-stream", "video/quicktime", "image/bmp"}

InitAllTypes ==
  /\ mediaType \in AllMimeTypes
  /\ mediaFileSizeBytes \in FileSizes
  /\ started = FALSE
  /\ _isUploading = FALSE
  /\ _isFileStreamEnded = FALSE
  /\ mediaTmpId = "undefined"
  /\ chunkNumber = 0
  /\ mediaFile = [open |-> FALSE, flowing |-> FALSE, emitted |-> 0, ended |-> FALSE]
  /\ requests = <<>>
  /\ inflight = {}
  /\ issuedAt = <<>>
  /\ answeredAt = <<>>
  /\ timers = <<>>
  /\ pendingTimers = {}
  /\ callbacks = <<>>
  /\ events = <<>>

NextInitPhase ==
  \/ upload
  \/ InitRespErr
  \/ InitRespOk

InitPhaseSpec == InitAllTypes /\ [][NextInitPhase]_vars

(* ---------------------------------------------------------------------- *)
(* C11: the INIT request carries command, media_type and total_bytes (the *)
(* file size) in every case, and media_category 'tweet_image' exactly for *)
(* image/png, image/jpeg, image/webp, 'tweet_gif' exactly for image/gif,  *)
(* 'tweet_video' exactly for video/mp4; for any other type the key        *)
(* media_category is not in the request at all.                           *)
(* ---------------------------------------------------------------------- *)
CategoryClaimed ==
  IF mediaType \in {"image/png", "image/jpeg", "image/webp"} THEN <<"tweet_image">>
  ELSE IF mediaType = "image/gif" THEN <<"tweet_gif">>
  ELSE IF mediaType = "video/mp4" THEN <<"tweet_video">>
  ELSE <<>>

C11_InitRequest ==
  \A r \in Issued("INIT") :
    LET p == requests[r].params
    IN /\ requests[r].method = "POST"
       /\ p.command = "INIT" /\ p.media_type = mediaType
       /\ p.total_bytes = mediaFileSizeBytes
       /\ IF CategoryClaimed = <<>>
          THEN DOMAIN p = {"command", "media_type", "total_bytes"}
          ELSE /\ DOMAIN p = {"command", "media_type", "total_bytes", "media_category"}
               /\ p.media_category = CategoryClaimed[1]

\* INIT went out for a file of unrecognized type, without media_category.
C11_Witness ==
  /\ mediaType = "video/quicktime"
  /\ \E r \in Issued("INIT") : "media_category" \notin DOMAIN requests[r].params

(* ---------------------------------------------------------------------- *)
(* C12: chunkNumber is 0 until the first APPEND has been answered, and    *)
(* the only step that changes it is the handler of a successful APPEND    *)
(* answer, which adds exactly one.  After a failed APPEND the index still *)
(* is the one that APPEND carried, and no APPEND is issued any more: the  *)
(* failed one is the last request of that command.                        *)
(* ---------------------------------------------------------------------- *)
SegmentIndexStartsAtZero ==
  /\ Succeeded("APPEND") = {} => chunkNumber = 0
  /\ \A r \in Issued("APPEND") :
       (\A q \in Issued("APPEND") : q >= r) => requests[r].params.segment_index = 0

FailedAppendIsLast ==
  \A r \in Failed("APPEND") :
    /\ requests[r].params.segment_index = chunkNumber
    /\ \A q \in Issued("APPEND") : q <= r

\* The step just taken is the handler of a successful APPEND answer.
AppendSucceededStep ==
  /\ Len(events') > Len(events)
  /\ events'[Len(events) + 1].type = "response"
  /\ events'[Len(events) + 1].err = JSNull
  /\ Command(events'[Len(events) + 1].n) = "APPEND"

C12_SegmentIndex ==
  /\ [](SegmentIndexStartsAtZero /\ FailedAppendIsLast)
  /\ [][chunkNumber' # chunkNumber =>
          chunkNumber' = chunkNumber + 1 /\ AppendSucceededStep]_vars

\* The third APPEND of a file failed after two had succeeded; the index is
\* still 2 and the stream has ended since.
C12_Witness ==
  /\ Cardinality(Succeeded("APPEND")) = 2 /\ Failed("APPEND") # {}
  /\ chunkNumber = 2 /\ mediaFile.ended

(* ---------------------------------------------------------------------- *)
(* C13: whenever an APPEND is outstanding the stream is paused and        *)
(* _isUploading is TRUE.  The only step that resumes the stream is the    *)
(* handler of a successful APPEND answer, and it does so only when        *)
(* (!_isUploading && _isFileStreamEnded) does not hold afterwards.  The   *)
(* stream hands out a chunk only when no APPEND is outstanding.           *)
(* ---------------------------------------------------------------------- *)
PausedWhileAppending ==
  Pending("APPEND") # {} => ~mediaFile.flowing /\ _isUploading

C13_Backpressure ==
  /\ []PausedWhileAppending
  /\ [][/\ (mediaFile.open /\ ~mediaFile.flowing /\ mediaFile'.flowing) =>
             /\ AppendSucceededStep
             /\ ~(~_isUploading' /\ _isFileStreamEnded')
        /\ mediaFile'.emitted # mediaFile.emitted => Pending("APPEND") = {}]_vars

\* The second chunk's APPEND is outstanding: the stream was resumed after
\* the first and is paused again.
C13_Witness ==
  /\ mediaFile.emitted = 2 /\ Cardinality(Succeeded("APPEND")) = 1
  /\ Pending("APPEND") # {} /\ ~mediaFile.flowing /\ _isUploading

(* ---------------------------------------------------------------------- *)
(* C14: every APPEND is issued after a successful answer to INIT; when    *)
(* FINALIZE is issued every APPEND issued has been answered, and no       *)
(* APPEND is issued after it; every STATUS request is issued after a      *)
(* successful answer to FINALIZE.                                         *)
(* ---------------------------------------------------------------------- *)
C14_PhaseOrder ==
  LET inits == {AnsweredAt(i) : i \in Succeeded("INIT")}
      appends == Issued("APPEND")
      finals == {AnsweredAt(f) : f \in Succeeded("FINALIZE")}
  IN /\ \A a \in appends : \E i \in inits : i < IssuedAt(a)
     /\ \A f \in Issued("FINALIZE") : \A a \in appends :
          /\ IssuedAt(a) < IssuedAt(f)
          /\ IsAnswered(a) /\ AnsweredAt(a) < IssuedAt(f)
     /\ \A q \in Issued("STATUS") : \E f \in finals : f < IssuedAt(q)

\* All four phases have run: INIT, three APPENDs, FINALIZE, two STATUS.
C14_Witness ==
  /\ Cardinality(Issued("APPEND")) = 3
  /\ Succeeded("FINALIZE") # {}
  /\ Cardinality(Issued("STATUS")) = 2

(* ---------------------------------------------------------------------- *)
(* C15: every APPEND, FINALIZE and STATUS request carries as media_id the *)
(* media_id_string of the answer to INIT, and once that answer has been   *)
(* handled no step changes mediaTmpId, whatever media_id_string the       *)
(* bodies of later answers carry.                                         *)
(* ---------------------------------------------------------------------- *)
\* The media_id_string of the successful answer to INIT.
InitMediaId == {events[AnsweredAt(i)].body.media_id_string : i \in Succeeded("INIT")}

MediaIdEverywhere ==
  /\ \A r \in Issued("APPEND") \cup Issued("FINALIZE") \cup Issued("STATUS") :
       /\ InitMediaId = {requests[r].params.media_id}
       /\ {"command", "media_id"} \subseteq DOMAIN requests[r].params
  /\ mediaFile.open => InitMediaId = {mediaTmpId}

C15_MediaId ==
  /\ []MediaIdEverywhere
  /\ [][mediaFile.open => mediaTmpId' = mediaTmpId]_vars

\* INIT returned an id other than the one later bodies carry, and a STATUS
\* request went out with INIT's id after FINALIZE had been answered.
C15_Witness ==
  /\ InitMediaId = {"710511363345354753"}
  /\ \E f \in Succeeded("FINALIZE") :
       events[AnsweredAt(f)].body.media_id_string # "710511363345354753"
  /\ \E q \in Issued("STATUS") : requests[q].params.media_id = "710511363345354753"
  /\ Issued("APPEND") # {}

(* ---------------------------------------------------------------------- *)
(* C16: when the answer to FINALIZE carries processing_info, whatever its *)
(* state, the handler schedules the first wait and does not invoke the    *)
(* callback; once that wait is over a STATUS request has been issued; and *)
(* every success reported to the caller carries the body of a STATUS      *)
(* answer, not FINALIZE's.                                                *)
(* ---------------------------------------------------------------------- *)
C16_AlwaysPolls ==
  \A f \in FinalizedWith(TRUE) :
    LET i == AnsweredAt(f)
    IN /\ Len(events) > i /\ events[i + 1].type = "timer" /\ events[i + 1].n = 1
       /\ Len(events) > i + 1 =>
            /\ events[i + 2].type = "fire" /\ events[i + 2].n = 1
            /\ events[i + 3].type = "request" /\ Command(events[i + 3].n) = "STATUS"
       /\ 1 \in pendingTimers \/ Issued("STATUS") # {}
       /\ \A c \in 1..Len(callbacks) :
            Len(callbacks[c]) = 2 =>
              /\ callbacks[c][2].request \in Succeeded("STATUS")
              /\ callbacks[c][2] = events[AnsweredAt(callbacks[c][2].request)].body

\* FINALIZE's answer already said 'succeeded'; the upload polled all the
\* same and reported the body of the STATUS answer.
C16_Witness ==
  /\ \E f \in FinalizedWith(TRUE) :
       events[AnsweredAt(f)].body.processing_info.state = "succeeded"
  /\ StatusAnswered("succeeded") # {}
  /\ Len(callbacks) = 1 /\ SuccessWithBody(callbacks[1])

(* ---------------------------------------------------------------------- *)
(* C17: the handler of every successful STATUS answer does exactly one of *)
(* two things: it schedules another poll, which it does if and only if    *)
(* the state is 'in_progress', or it invokes the callback, which it does  *)
(* if and only if the state is 'failed' or 'succeeded'.                   *)
(* ---------------------------------------------------------------------- *)
\* What the handler of the answer to STATUS request r did next.
StatusHandlerDid(r, type) ==
  Len(events) > AnsweredAt(r) /\ events[AnsweredAt(r) + 1].type = type

C17_ContinueOrTerminate ==
  \A r \in Succeeded("STATUS") :
    /\ StatusHandlerDid(r, "timer") <=> StatusState(r) = "in_progress"
    /\ StatusHandlerDid(r, "callback") <=> StatusState(r) \in {"failed", "succeeded"}
    /\ StatusHandlerDid(r, "timer") # StatusHandlerDid(r, "callback")

(* ---------------------------------------------------------------------- *)
(* C18: in every state at most one thing of the poll loop is waiting,     *)
(* either one pending timer or one outstanding STATUS request, and none   *)
(* once the callback has been invoked; so a STATUS request is issued only *)
(* after the previous one has been answered.                              *)
(* ---------------------------------------------------------------------- *)
C18_SequentialPolling ==
  /\ Cardinality(pendingTimers) + Cardinality(Pending("STATUS")) <= 1
  /\ callbacks # <<>> => pendingTimers = {} /\ Pending("STATUS") = {}
  /\ \A q \in Issued("STATUS") : \A r \in Issued("STATUS") :
       q < r => IsAnswered(q) /\ AnsweredAt(q) < IssuedAt(r)

(* ---------------------------------------------------------------------- *)
(* Calling upload() again on the same FileUploader.  The constructor is   *)
(* the only place that initialises the two flags, so the second upload    *)
(* starts with whatever the first one left in them.  The second call is   *)
(* made once nothing of the previous upload is left to run, so that the   *)
(* closure variables of the INIT callback are those of the latest upload. *)
(* ---------------------------------------------------------------------- *)
\* Further upload() calls on one object.
MaxReuse == 1

InitSmallFile ==
  /\ mediaType \in {"image/png"}
  /\ mediaFileSizeBytes \in {1, MAX_FILE_SIZE_BYTES}
  /\ started = FALSE
  /\ _isUploading = FALSE
  /\ _isFileStreamEnded = FALSE
  /\ mediaTmpId = "undefined"
  /\ chunkNumber = 0
  /\ mediaFile = [open |-> FALSE, flowing |-> FALSE, emitted |-> 0, ended |-> FALSE]
  /\ requests = <<>>
  /\ inflight = {}
  /\ issuedAt = <<>>
  /\ answeredAt = <<>>
  /\ timers = <<>>
  /\ pendingTimers = {}
  /\ callbacks = <<>>
  /\ events = <<>>

\* A further upload() that creates the flags anew, as if per upload.
uploadAgain_ResetsFlags ==
  /\ started /\ Quiescent
  /\ Cardinality(At("upload")) < MaxReuse
  /\ _isUploading' = FALSE
  /\ _isFileStreamEnded' = FALSE
  /\ IF withinLimit(mediaFileSizeBytes, maxSizeBytes(mediaType))
     THEN /\ Effects(<<[type |-> "upload", n |-> Len(callbacks)]>>,
                     <<_initMedia(mediaType, mediaFileSizeBytes)>>, <<>>, <<>>,
                     <<FALSE, FALSE>>)
          /\ Answered(0, <<_initMedia(mediaType, mediaFileSizeBytes)>>)
     ELSE /\ Effects(<<[type |-> "upload", n |-> Len(callbacks)]>>, <<>>, <<>>,
                     << <<JSError(errMsg(maxSizeBytes(mediaType), mediaFileSizeBytes))>> >>,
                     <<FALSE, FALSE>>)
          /\ Answered(0, <<>>)
  /\ UNCHANGED <<fileVars, started, mediaTmpId, chunkNumber, mediaFile, pendingTimers>>

uploadAgain ==
  /\ started /\ Quiescent
  /\ Cardinality(At("upload")) < MaxReuse
  /\ IF withinLimit(mediaFileSizeBytes, maxSizeBytes(mediaType))
     THEN /\ Effects(<<[type |-> "upload", n |-> Len(callbacks)]>>,
                     <<_initMedia(mediaType, mediaFileSizeBytes)>>, <<>>, <<>>,
                     <<_isUploading, _isFileStreamEnded>>)
          /\ Answered(0, <<_initMedia(mediaType, mediaFileSizeBytes)>>)
     ELSE /\ Effects(<<[type |-> "upload", n |-> Len(callbacks)]>>, <<>>, <<>>,
                     << <<JSError(errMsg(maxSizeBytes(mediaType), mediaFileSizeBytes))>> >>,
                     <<_isUploading, _isFileStreamEnded>>)
          /\ Answered(0, <<>>)
  /\ UNCHANGED <<fileVars, started, _isUploading, _isFileStreamEnded, mediaTmpId,
                 chunkNumber, mediaFile, pendingTimers>>

\* An answer to FINALIZE without the optional check_after_secs.
FinalizeRespPlain ==
  \E r \in Pending("FINALIZE") :
    \E bodyObj \in {b \in FinalizeBodies(r) :
                      "processing_info" \in DOMAIN b =>
                        b.processing_info = [state |-> "in_progress"]} :
      /\ checkAsyncFinish(r, bodyObj)
      /\ Answered(r, <<>>)
      /\ UNCHANGED <<fileVars, started, _isUploading, _isFileStreamEnded, mediaTmpId,
                     chunkNumber, mediaFile>>

\* An answer to STATUS without it, processing done.
StatusRespPlain ==
  \E r \in Pending("STATUS") :
    \E bodyObj \in {b \in StatusBodies(r, {"succeeded"}) :
                      "check_after_secs" \notin DOMAIN b.processing_info} :
      StatusAnswer(r, bodyObj)

NextReuse ==
  \/ upload
  \/ uploadAgain
  \/ InitRespOk
  \/ StreamData
  \/ StreamEnd
  \/ AppendRespErr
  \/ AppendRespOk
  \/ FinalizeRespPlain
  \/ TimerFire
  \/ StatusRespPlain

ReuseSpec == InitSmallFile /\ [][NextReuse]_vars

\* What the step under way appends first to events.
StepIs(type) == Len(events') > Len(events) /\ events'[Len(events) + 1].type = type
AppendResponseStep == StepIs("response") /\ Command(events'[Len(events) + 1].n) = "APPEND"

(* ---------------------------------------------------------------------- *)
(* C19: the flags are (FALSE, FALSE) from the construction of the object  *)
(* until its first upload() and no upload() sets them again;              *)
(* _isFileStreamEnded, once TRUE, is never set back to FALSE, not by a    *)
(* response, a poll, a callback or a further upload() on the object, and  *)
(* only 'end' writes it; _isUploading is written by the 'data' handler    *)
(* (TRUE) and by the APPEND response handler (FALSE) and by nothing else. *)
(* ---------------------------------------------------------------------- *)
C19_FlagWrites ==
  /\ [](~started => ~_isUploading /\ ~_isFileStreamEnded)
  /\ [][/\ _isFileStreamEnded => _isFileStreamEnded'
        /\ _isFileStreamEnded' # _isFileStreamEnded => StepIs("end")
        /\ StepIs("end") => _isFileStreamEnded'
        /\ StepIs("upload") =>
             _isUploading' = _isUploading /\ _isFileStreamEnded' = _isFileStreamEnded
        /\ _isUploading' # _isUploading => StepIs("data") \/ AppendResponseStep
        /\ StepIs("data") => _isUploading'
        /\ AppendResponseStep => ~_isUploading']_vars

\* A further upload() on the object is streaming its file, 'end' has not
\* come for it, and the flag still reads TRUE from the upload before.
C19_Witness ==
  /\ At("upload") # {}
  /\ mediaFile.open /\ ~mediaFile.ended /\ mediaFile.emitted = 1
  /\ _isUploading /\ _isFileStreamEnded
====
